---- MODULE Spec2Model ----
(***************************************************************************)
(* The fusion job pipeline of prithvimulay/music: the two HTTP handlers    *)
(* that dispatch Celery chains (app/api/fusion.py), the four chained       *)
(* tasks (app/celeryworker/tasks.py), the records they write               *)
(* (app/db/models) and the Drive service they call (app/services).         *)
(*                                                                         *)
(* Python None is written 0 for ids and "None" for strings.  A Python dict *)
(* is a function from key strings to values; {**d, k: v} is (k :> v) @@ d. *)
(***************************************************************************)
EXTENDS Integers, Sequences, FiniteSets, TLC

\* ------------------------------------------------------------------ bounds
\* Accepted requests to /prepare-prompt/ and to /generate/.
MaxPrepares == 1
MaxResumes == 2
\* Deliveries of one task message beyond the first (late acknowledgement).
MaxRedeliveries == 1
MaxCalls == 2
MaxClock == 3
MaxSweeps == 1
MaxMusic == 1
MaxMixes == 1
\* Accepted requests to /prepare-prompt/ where jobs run side by side.
MaxJobs == 2

\* ------------------------------------------------------------ request data
\* AudioFile ids a request may name; the user owns OwnedTracks, the other id
\* matches no row of the user.
TrackIds == {1, 2, 3}
OwnedTracks == {1, 2}
\* The (track1_id, track2_id) pairs of well-formed requests, and of any request.
SourcePairs == {<<1, 2>>}
AnyPairs == {<<1, 2>>, <<1, 3>>}
\* The pairs of tracks the user owns, in either order.
OwnedPairs == {<<1, 2>>, <<2, 1>>}
\* FusionRequest.duration values submitted (both inside ge=5, le=30).
Durations == {15, 30}
AnyDurations == {30}
\* A task id that the result backend has never issued.
UnknownIds == {-1}

VARIABLES
    gdriveImport,  \* which app.services.gdrive the import statement binds
    fusions,       \* rows of table fusions (id = index)
    audioFiles,    \* fusion rows of table audio_files (id = index)
    tasks,         \* Celery task messages and their result-backend entries
    runs,          \* one entry per dispatched chain
    dirs,          \* directories that exist under TEMP_STEMS_DIR
    store,         \* Drive files uploaded by the workers (id = index)
    handler,       \* the HTTP handler in flight or the response it has just sent
    redelivered,   \* redeliveries so far
    lastPoll,      \* the answer to the last status poll or download
    clock,         \* time.time(), in units of 12 hours
    mtime,         \* st_mtime of the entries created under TEMP_STEMS_DIR
    files,         \* entries under TEMP_STEMS_DIR that are no directories
    sweep,         \* the execution of cleanup_temp_files
    generatedMusic, \* rows of table generated_music with their stems (id = index)
    mixedTracks    \* rows of table mixed_tracks (id = index)

reaper == <<clock, mtime, files, sweep>>

library == <<generatedMusic, mixedTracks>>

vars == <<gdriveImport, fusions, audioFiles, tasks, runs, dirs, store,
          handler, redelivered, lastPoll, clock, mtime, files, sweep,
          generatedMusic, mixedTracks>>

\* ------------------------------------------------------------ Python dicts
EmptyDict == <<>>

HasKey(d, k) == k \in DOMAIN d

\* d.get(k) is truthy
Truthy(d, k) == HasKey(d, k) /\ d[k] # 0

\* app.services.mir.extract_features over the stem files of a directory
Features(stems) == [track1 |-> stems, track2 |-> stems]

\* AudioFile.gdrive_file_id of a source track
GdriveFileId(t) == 100 + t

\* uuid.uuid4().hex as drawn by execution i of task t: no two draws agree.
Uuid(t, i) == 10 * t + i

\* No handler runs.
Idle == [op |-> "idle", code |-> 0, rec |-> 0, result |-> 0,
         track1_id |-> 0, track2_id |-> 0, token |-> 0, request |-> 0]

\* A handler has raised HTTPException(code), or an exception that the
\* framework answers with 500 or a validation error it answers with 422.
Rejected(endpoint, code) == [Idle EXCEPT !.op = endpoint, !.code = code]

\* cleanup_temp_files is not running.
NoSweep == [pc |-> "idle", current_time |-> 0, listing |-> {}, todo |-> {},
            failed |-> {}, returned |-> 0]

NoPoll == [endpoint |-> "none", id |-> 0, code |-> 0, progress |-> 0]

\* ------------------------------------------------------------ Celery chain
NewTask(name, run, args, kwargs, rest, sent) ==
    [name |-> name, run |-> run, args |-> args, kwargs |-> kwargs,
     chain |-> rest, state |-> "PENDING", current |-> 0,
     result |-> EmptyDict, msgs |-> IF sent THEN 1 ELSE 0, execs |-> <<>>]

\* chain(first.s(args, **kwargs), second.s()).apply_async(): both tasks get
\* their ids now, only the first message is sent, and the AsyncResult that
\* is returned is the one of the last task of the chain.
ApplyChain(ts, run, first, args, kwargs, second) ==
    ts \o << NewTask(first, run, args, kwargs, <<Len(ts) + 2>>, TRUE),
             NewTask(second, run, EmptyDict, EmptyDict, <<>>, FALSE) >>

ChainResultId(ts) == Len(ts) + 2

\* A task returns ret: its state is SUCCESS and, if the chain goes on, the
\* next task of the chain is sent with ret as its first argument.
ChainOnSuccess(ts, t, ret) ==
    LET done == [ts EXCEPT ![t].state = "SUCCESS", ![t].result = ret]
    IN  IF ts[t].chain = <<>> THEN done
        ELSE LET n == Head(ts[t].chain)
             IN [done EXCEPT ![n].args = ret,
                             ![n].chain = Tail(ts[t].chain),
                             ![n].msgs = @ + 1]

\* A chain that goes on after a failure: the next task is sent all the same.
ChainOnFailureGoesOn(ts, t, err) ==
    LET failed == [ts EXCEPT ![t].state = "FAILURE", ![t].result = [error |-> err]]
    IN  IF ts[t].chain = <<>> THEN failed
        ELSE [failed EXCEPT ![Head(ts[t].chain)].msgs = @ + 1]

\* A task raises: its state is FAILURE and the rest of the chain is not sent.
ChainOnFailure(ts, t, err) ==
    [ts EXCEPT ![t].state = "FAILURE", ![t].result = [error |-> err]]

\* A worker takes a message of task t from the broker: execution
\* Len(execs) + 1 of the task begins at pc.
Deliver(ts, t, pc, dir) ==
    [ts EXCEPT ![t].msgs = @ - 1,
               ![t].execs = Append(@, [pc |-> pc, dir |-> dir, art |-> 0])]

\* self.update_state(state="PROGRESS", meta={"current": current, ...})
UpdateState(ts, t, current) ==
    [ts EXCEPT ![t].state = "PROGRESS", ![t].current = current]

SetPc(ts, t, i, pc) == [ts EXCEPT ![t].execs[i].pc = pc]

\* except Exception: self.update_state(state="FAILURE", ...); raise
Raise(ts, t, i) == ChainOnFailure(SetPc(ts, t, i, "raised"), t, ts[t].name)

Queued(t, name) ==
    /\ t \in 1..Len(tasks)
    /\ tasks[t].name = name
    /\ tasks[t].msgs > 0

Running(t, i, pc) ==
    /\ t \in 1..Len(tasks)
    /\ i \in 1..Len(tasks[t].execs)
    /\ tasks[t].execs[i].pc = pc

\* ------------------------------------------------------------------- Init
Init ==
    /\ gdriveImport \in {"gdrive.py", "gdrive/"}
    /\ fusions = <<>>
    /\ audioFiles = <<>>
    /\ tasks = <<>>
    /\ runs = <<>>
    /\ dirs = {}
    /\ store = <<>>
    /\ handler = Idle
    /\ redelivered = 0
    /\ lastPoll = NoPoll
    /\ clock = 0
    /\ mtime = <<>>
    /\ files = {}
    /\ sweep = NoSweep
    /\ generatedMusic = <<>>
    /\ mixedTracks = <<>>

\* The handler has answered and the connection is closed.
Respond ==
    /\ handler.op \in {"prepare_rejected", "generate_rejected",
                       "generate_music", "mix", "mix_rejected"}
    /\ handler' = Idle
    /\ UNCHANGED <<gdriveImport, library, fusions, audioFiles, tasks, runs, dirs,
                   store, redelivered, lastPoll, reaper>>

RunsOf(kind) == {r \in 1..Len(runs) : runs[r].kind = kind}

\* ------------------------------------------- POST /fusion/prepare-prompt/
TracksFound(t1, t2) == t1 \in OwnedTracks /\ t2 \in OwnedTracks

\* Lines 54-65; the generation parameters of the row are not carried.
NewFusion(t1, t2) ==
    [track1_id |-> t1, track2_id |-> t2,
     status |-> "pending", progress |-> 0, task_id |-> 0,
     error_message |-> "None", gdrive_file_id |-> 0, completed_at |-> 0]

SeparationArgs(t1, t2) ==
    [track1_id |-> GdriveFileId(t1), track2_id |-> GdriveFileId(t2),
     project_id |-> 1, user_id |-> 1]

\* Lines 39-78: look the tracks up, commit the Fusion row, send the chain;
\* at most limit requests are accepted.
PrepareSubmitWithin(t1, t2, limit) ==
    /\ handler = Idle
    /\ IF ~TracksFound(t1, t2)
       THEN /\ handler' = Rejected("prepare_rejected", 404)
            /\ UNCHANGED <<fusions, tasks, runs>>
       ELSE /\ Cardinality(RunsOf("prefix")) < limit
            /\ fusions' = Append(fusions, NewFusion(t1, t2))
            /\ tasks' = ApplyChain(tasks, Len(runs) + 1, "stem_separation",
                                   SeparationArgs(t1, t2), EmptyDict,
                                   "feature_extraction")
            /\ runs' = Append(runs, [kind |-> "prefix", rec |-> Len(fusions) + 1,
                                     first |-> Len(tasks) + 1,
                                     last |-> ChainResultId(tasks)])
            /\ handler' = [op |-> "prepare", code |-> 0,
                           rec |-> Len(fusions) + 1,
                           result |-> ChainResultId(tasks),
                           track1_id |-> t1, track2_id |-> t2, token |-> 0,
                           request |-> 0]
    /\ UNCHANGED <<gdriveImport, library, audioFiles, dirs, store, redelivered, lastPoll, reaper>>

PrepareSubmit(t1, t2) == PrepareSubmitWithin(t1, t2, MaxPrepares)

\* schemas/fusion.py:46-50: the validator of track1_id and track2_id, run for
\* the value v of one field with the fields validated before it in values;
\* values.get('track2_id') is None when the field is not among them.
TracksMustBeDifferent(v, values) ==
    /\ HasKey(values, "track1_id")
    /\ v = values["track1_id"]
    /\ HasKey(values, "track2_id")
    /\ v = values["track2_id"]

\* schemas/fusion.py:18-20: track1_id is validated first, then track2_id.
FusionRequestRaises(t1, t2) ==
    \/ TracksMustBeDifferent(t1, EmptyDict)
    \/ TracksMustBeDifferent(t2, [track1_id |-> t1])

\* api/fusion.py:26-32: the body is validated as a FusionRequest before the
\* handler runs; a request that fails validation is answered 422.
PrepareRequest(t1, t2) ==
    IF FusionRequestRaises(t1, t2)
    THEN /\ handler = Idle
         /\ handler' = [Rejected("prepare_rejected", 422) EXCEPT
                           !.track1_id = t1, !.track2_id = t2]
         /\ UNCHANGED <<gdriveImport, library, fusions, audioFiles, tasks, runs,
                        dirs, store, redelivered, lastPoll, reaper>>
    ELSE PrepareSubmitWithin(t1, t2, MaxJobs)

\* Lines 80-96: store the task id, flip the row to PROCESSING, answer.
PrepareCommit ==
    /\ handler.op = "prepare"
    /\ fusions' = [fusions EXCEPT ![handler.rec].task_id = handler.result,
                                  ![handler.rec].status = "processing"]
    /\ handler' = Idle
    /\ UNCHANGED <<gdriveImport, library, audioFiles, tasks, runs, dirs, store,
                   redelivered, lastPoll, reaper>>

\* ------------------------------------------------ POST /fusion/generate/
\* The values a client may put in feature_data_json.  kind tells what the
\* value is: absent (None or ""), a uuid string, a string of digits, a JSON
\* string literal ("..." with its quotes), the text of a JSON object, or a
\* dict that was not serialised.
Token(kind, id, fields) == [kind |-> kind, id |-> id, fields |-> fields]

\* A feature-data dict the client has written itself; the directory it
\* names is no directory of the scratch root.
CraftedFeatureData(id) ==
    [task_id |-> id, stem_dir |-> 0, stems |-> 0,
     project_id |-> 1, user_id |-> 1,
     track1_metadata |-> [id |-> GdriveFileId(1)],
     track2_metadata |-> [id |-> GdriveFileId(2)],
     track1_id |-> GdriveFileId(1), track2_id |-> GdriveFileId(2),
     features |-> Features(0)]

\* A feature-data object that also holds a key generate_fusion sets.
ContextTokens ==
    {Token("object", n, [prompt |-> "mine"] @@ CraftedFeatureData(n)) :
        n \in UnknownIds}

\* The ids /prepare-prompt/ has returned so far.
IssuedIds == {runs[r].last : r \in RunsOf("prefix")}

\* The tokens of well-formed requests: the id /prepare-prompt/ returned, as
\* a bare string, or a feature-data object.
ResumeTokens ==
    {Token("uuid", n, EmptyDict) : n \in IssuedIds}
    \cup {Token("object", n, CraftedFeatureData(n)) : n \in UnknownIds}

\* The tokens of any request.
TokenInputs ==
    ResumeTokens
    \cup {Token("absent", 0, EmptyDict), Token("digits", 123, EmptyDict),
          Token("object", 0, EmptyDict)}
    \cup {Token(k, n, EmptyDict) : k \in {"uuid", "quoted"}, n \in UnknownIds}
    \cup {Token(k, n, [task_id |-> n]) : k \in {"object", "dict"}, n \in IssuedIds}

\* json.loads of a string: a uuid is not JSON text (JSONDecodeError); digits
\* are a JSON number, a quoted string a JSON string, an object a dict.
JsonLoads(tok) ==
    CASE tok.kind = "uuid" -> [ok |-> FALSE, type |-> "none", value |-> EmptyDict]
      [] tok.kind = "digits" -> [ok |-> TRUE, type |-> "int", value |-> EmptyDict]
      [] tok.kind = "quoted" -> [ok |-> TRUE, type |-> "str", value |-> EmptyDict]
      [] OTHER -> [ok |-> TRUE, type |-> "dict", value |-> tok.fields]

\* Lines 141-151.
ParseFeatureData(tok) ==
    IF tok.kind = "dict"
    THEN [ok |-> TRUE, type |-> "dict", value |-> tok.fields]
    ELSE IF JsonLoads(tok).ok
         THEN JsonLoads(tok)
         ELSE [ok |-> TRUE, type |-> "dict", value |-> [task_id |-> tok.id]]

\* FusionGenerateRequest.feature_data_json: Optional[str]
\* schemas/fusion.py:18-39: the numeric fields of FusionRequest with their
\* defaults; temperature and prompt_guidance in tenths.
DefaultRequest(d) == [duration |-> d, temperature |-> 10, prompt_guidance |-> 30]

\* The Field bounds of FusionRequest (ge, le) and the type of
\* feature_data_json; a request that fails them is answered 422.
RequestValid(req, tok) ==
    /\ tok.kind # "dict"
    /\ req.duration \in 5..30
    /\ req.temperature \in 1..15
    /\ req.prompt_guidance \in 10..70

\* Lines 163-166.
GenerationKwargs(req) ==
    [duration |-> req.duration, temperature |-> req.temperature,
     prompt_guidance |-> req.prompt_guidance, custom_prompt |-> "None"]

\* The status code of a request that is answered before anything is sent,
\* 0 if the chain is sent.
GenerateRejection(t1, t2, req, tok) ==
    CASE ~RequestValid(req, tok) -> 422
      [] ~TracksFound(t1, t2) -> 404
      [] tok.kind = "absent" -> 400
      [] ParseFeatureData(tok).type # "dict" -> 500
      [] ~Truthy(ParseFeatureData(tok).value, "task_id") -> 400
      [] OTHER -> 0

\* Lines 115-173: look the tracks up, parse feature_data_json, send the chain.
GenerateSubmit(t1, t2, req, tok) ==
    /\ handler = Idle
    /\ IF GenerateRejection(t1, t2, req, tok) # 0
       THEN /\ handler' = [Rejected("generate_rejected",
                                    GenerateRejection(t1, t2, req, tok))
                             EXCEPT !.track1_id = t1, !.track2_id = t2,
                                    !.token = tok, !.request = req]
            /\ UNCHANGED <<tasks, runs>>
       ELSE /\ Cardinality(RunsOf("resumed")) < MaxResumes
            /\ tasks' = ApplyChain(tasks, Len(runs) + 1, "generate_fusion",
                                   ParseFeatureData(tok).value,
                                   GenerationKwargs(req), "enhance_audio")
            /\ runs' = Append(runs, [kind |-> "resumed", rec |-> 0,
                                     first |-> Len(tasks) + 1,
                                     last |-> ChainResultId(tasks)])
            /\ handler' = [op |-> "generate", code |-> 0, rec |-> Len(runs) + 1,
                           result |-> ChainResultId(tasks),
                           track1_id |-> t1, track2_id |-> t2, token |-> tok,
                           request |-> req]
    /\ UNCHANGED <<gdriveImport, library, fusions, audioFiles, dirs, store,
                   redelivered, lastPoll, reaper>>

\* Lines 178-190.
PendingAudioFile(result, t1, t2) ==
    [filename |-> <<"fusion_pending", result>>,
     gdrive_file_id |-> <<"pending", result>>,
     status |-> "pending", is_fusion |-> TRUE,
     source_track1_id |-> t1, source_track2_id |-> t2,
     task_id |-> result]

\* Lines 175-205: add the pending AudioFile row, commit, answer.
GenerateCommit ==
    /\ handler.op = "generate"
    /\ audioFiles' = Append(audioFiles,
                            PendingAudioFile(handler.result, handler.track1_id,
                                             handler.track2_id))
    /\ runs' = [runs EXCEPT ![handler.rec].rec = Len(audioFiles) + 1]
    /\ handler' = Idle
    /\ UNCHANGED <<gdriveImport, library, fusions, tasks, dirs, store, redelivered,
                   lastPoll, reaper>>

\* ------------------------------------------- GET /fusion/status/{fusion_id}
\* The columns class AudioFile declares.
AudioFileColumns ==
    {"id", "filename", "gdrive_file_id", "proj_id", "user_id", "created_at",
     "updated_at", "is_fusion", "source_track1_id", "source_track2_id",
     "fusion_metadata", "status", "task_id"}

\* The attributes of the row that lines 224-245 read.
StatusReads ==
    {"updated_at", "created_at", "status", "id", "progress", "error_message",
     "filename", "gdrive_file_id", "completed_at"}

\* Lines 214-246: 404 without a row, AttributeError (500) when an attribute
\* that is read is no column of the row, else the row's progress or 0.
GetFusionStatus(fusion_id) ==
    /\ lastPoll' =
         IF fusion_id \notin 1..Len(audioFiles)
         THEN [endpoint |-> "status", id |-> fusion_id, code |-> 404, progress |-> 0]
         ELSE IF ~(StatusReads \subseteq AudioFileColumns)
         THEN [endpoint |-> "status", id |-> fusion_id, code |-> 500, progress |-> 0]
         ELSE [endpoint |-> "status", id |-> fusion_id, code |-> 200, progress |-> 0]
    /\ UNCHANGED <<gdriveImport, library, fusions, audioFiles, tasks, runs, dirs,
                   store, handler, redelivered, reaper>>

\* Lines 248-292 of api/fusion.py: 404 without a fusion row of the user, 400
\* unless the row's status is the string "SUCCESS", else the file is fetched
\* from Drive and answered; a file that was not fetched is a server error.
DownloadFusion(fusion_id, ok) ==
    /\ lastPoll' =
         IF fusion_id \notin 1..Len(audioFiles) \/ ~audioFiles[fusion_id].is_fusion
         THEN [endpoint |-> "download", id |-> fusion_id, code |-> 404, progress |-> 0]
         ELSE IF audioFiles[fusion_id].status # "SUCCESS"
         THEN [endpoint |-> "download", id |-> fusion_id, code |-> 400, progress |-> 0]
         ELSE [endpoint |-> "download", id |-> fusion_id,
               code |-> IF ok THEN 200 ELSE 500, progress |-> 0]
    /\ UNCHANGED <<gdriveImport, library, fusions, audioFiles, tasks, runs, dirs,
                   store, handler, redelivered, reaper>>

\* --------------------------------------------------- app.services.gdrive
\* download_file(file_id, destination_path).  gdrive.py returns the pair
\* (success, message); gdrive/gdrive_service.py returns the destination
\* path, a string, or raises.
DownloadFile(impl, ok) ==
    IF impl = "gdrive.py" THEN [kind |-> "tuple", success |-> ok]
    ELSE IF ok THEN [kind |-> "str", success |-> TRUE]
    ELSE [kind |-> "raise", success |-> FALSE]

\* track1_success, track1_message = <value>; if not track1_success: raise
DownloadSucceeds(v) == v.kind = "tuple" /\ v.success

\* The parameters of upload_file.
UploadParams(impl) ==
    IF impl = "gdrive.py" THEN {"file_content", "filename", "mime_type"}
    ELSE {"file_path", "name", "mime_type"}

\* upload_file(file_path=..., name=...) as enhance_audio calls it.
UploadCallBinds(impl) == {"file_path", "name"} \subseteq UploadParams(impl)

\* ------------------------------------------------- task 1: stem_separation
\* Lines 145-154.
SeparationResult(a, d) ==
    [stem_dir |-> d, stems |-> d,
     project_id |-> a.project_id, user_id |-> a.user_id,
     track1_metadata |-> [id |-> a.track1_id],
     track2_metadata |-> [id |-> a.track2_id],
     track1_id |-> a.track1_id, track2_id |-> a.track2_id]

\* Lines 67-121: download both tracks, read their metadata, create the
\* stem directory.
StemSeparationStart(t) ==
    /\ Queued(t, "stem_separation")
    /\ LET i == Len(tasks[t].execs) + 1 IN
       \E ok \in BOOLEAN :
         IF DownloadSucceeds(DownloadFile(gdriveImport, ok))
         THEN /\ dirs' = dirs \cup {Uuid(t, i)}
              /\ mtime' = (Uuid(t, i) :> clock) @@ mtime
              /\ tasks' = UpdateState(Deliver(tasks, t, "separate", Uuid(t, i)), t, 3)
         ELSE /\ tasks' = Raise(Deliver(tasks, t, "download", 0), t, i)
              /\ UNCHANGED <<dirs, mtime>>
    /\ UNCHANGED <<gdriveImport, library, fusions, audioFiles, runs, store, handler,
                   redelivered, lastPoll, clock, files, sweep>>

\* Lines 123-158: separate both tracks into the stem directory and return.
StemSeparationFinish(t, i) ==
    /\ Running(t, i, "separate")
    /\ \E ok \in BOOLEAN :
         IF ok
         THEN tasks' = ChainOnSuccess(
                          UpdateState(SetPc(tasks, t, i, "returned"), t, 4),
                          t, SeparationResult(tasks[t].args, tasks[t].execs[i].dir))
         ELSE tasks' = Raise(tasks, t, i)
    \* separate_stems: os.makedirs(output_dir, exist_ok=True), which makes
    \* or modifies the stem directory
    /\ dirs' = dirs \cup {tasks[t].execs[i].dir}
    /\ mtime' = (tasks[t].execs[i].dir :> clock) @@ mtime
    /\ UNCHANGED <<gdriveImport, library, fusions, audioFiles, runs, store, handler,
                   redelivered, lastPoll, clock, files, sweep>>

\* Line 80 and 87: os.path.join(UPLOADED_TRACKS_DIR, f"track1_{track1_id}.wav")
TrackFilePath(slot, track_id) == <<"uploaded_tracks", slot, track_id>>

\* Line 110: os.path.join(TEMP_STEMS_DIR, f"fusion_{uuid.uuid4().hex}")
StemDirPath(uuid) == <<"temp_stems", uuid>>

\* Lines 80-111 and 134-143: the local paths execution i of stem_separation
\* t has written or read so far: the file of track 1, and once both
\* downloads are done the file of track 2 and the stem directory.
SeparationPaths(t, i) ==
    {TrackFilePath("track1", tasks[t].args.track1_id)}
    \cup IF tasks[t].execs[i].dir = 0 THEN {}
         ELSE {TrackFilePath("track2", tasks[t].args.track2_id),
               StemDirPath(tasks[t].execs[i].dir)}

\* ---------------------------------------------- task 2: feature_extraction
\* Lines 172-183.
FeatureExtractionStart(t) ==
    /\ Queued(t, "feature_extraction")
    /\ tasks' = UpdateState(Deliver(tasks, t, "extract", 0), t, 1)
    /\ UNCHANGED <<gdriveImport, library, fusions, audioFiles, runs, dirs, store,
                   handler, redelivered, lastPoll, reaper>>

\* Lines 185-253: extract the features of the four stems and return.
FeatureExtractionFinish(t, i) ==
    /\ Running(t, i, "extract")
    /\ LET stem_data == tasks[t].args IN
       \E ok \in BOOLEAN :
         IF HasKey(stem_data, "stems") /\ stem_data.stems \in dirs /\ ok
         THEN tasks' = ChainOnSuccess(
                          UpdateState(SetPc(tasks, t, i, "returned"), t, 4),
                          t, [features |-> Features(stem_data.stems)] @@ stem_data)
         ELSE tasks' = Raise(tasks, t, i)
    /\ UNCHANGED <<gdriveImport, library, fusions, audioFiles, runs, dirs, store,
                   handler, redelivered, lastPoll, reaper>>

\* ------------------------------------------------- task 3: generate_fusion
Max(a, b) == IF a >= b THEN a ELSE b
Min(a, b) == IF a <= b THEN a ELSE b

\* A duration that is passed on as it is.
SafeDurationUnclamped(duration) == duration

\* Lines 318-320; prompt_guidance in tenths.
SafeDuration(duration) == Max(5, Min(30, duration))
SafeGuidanceScale(prompt_guidance) == Max(10, Min(70, prompt_guidance))

\* musicgen.generate(prompt, duration, guidance_scale, output_path, ...):
\* the generation engine writes the track (TRUE) or raises (FALSE).
MusicGenGenerate == BOOLEAN

\* A return value that leaves feature_data out.
GenerationResultAlone(feature_data, kwargs, file) ==
    [fusion_track_path |-> file, fusion_filename |-> file,
     prompt |-> kwargs.custom_prompt,
     generation_params |-> [duration |-> SafeDuration(kwargs.duration),
                            guidance_scale |-> SafeGuidanceScale(kwargs.prompt_guidance)],
     start_time |-> 0]

\* Lines 347-357.
GenerationResult(feature_data, kwargs, file) ==
    [fusion_track_path |-> file, fusion_filename |-> file,
     prompt |-> kwargs.custom_prompt,
     generation_params |-> [duration |-> SafeDuration(kwargs.duration),
                            guidance_scale |-> SafeGuidanceScale(kwargs.prompt_guidance)],
     start_time |-> 0] @@ feature_data

\* Lines 272-303: load the service, read the features of both tracks.
GenerateFusionStart(t) ==
    /\ Queued(t, "generate_fusion")
    /\ LET i == Len(tasks[t].execs) + 1 IN
       IF HasKey(tasks[t].args, "features")
       THEN tasks' = UpdateState(Deliver(tasks, t, "generate", 0), t, 3)
       ELSE tasks' = Raise(Deliver(tasks, t, "generate", 0), t, i)
    /\ UNCHANGED <<gdriveImport, library, fusions, audioFiles, runs, dirs, store,
                   handler, redelivered, lastPoll, reaper>>

\* Lines 337-343: the keyword arguments of the call musicgen.generate(...).
MusicGenCall(kwargs) ==
    [prompt |-> kwargs.custom_prompt,
     duration |-> SafeDuration(kwargs.duration),
     guidance_scale |-> SafeGuidanceScale(kwargs.prompt_guidance),
     num_inference_steps |-> 50]

\* Execution i of task t calls the engine.
CallEngine(ts, t, i) ==
    [ts EXCEPT ![t].execs[i] = [call |-> MusicGenCall(ts[t].kwargs)] @@ @]

\* Lines 336-361: generate the track and return.
GenerateFusionFinish(t, i) ==
    /\ Running(t, i, "generate")
    /\ \E ok \in MusicGenGenerate :
         IF ok
         THEN tasks' = ChainOnSuccess(
                          SetPc(CallEngine(tasks, t, i), t, i, "returned"),
                          t, GenerationResult(tasks[t].args, tasks[t].kwargs, Uuid(t, i)))
         ELSE tasks' = Raise(CallEngine(tasks, t, i), t, i)
    /\ UNCHANGED <<gdriveImport, library, fusions, audioFiles, runs, dirs, store,
                   handler, redelivered, lastPoll, reaper>>

\* --------------------------------------------------- task 4: enhance_audio
\* Lines 378-382.
EnhanceInputKeys == {"stem_dir", "fusion_track_path", "fusion_filename",
                     "project_id", "user_id"}

\* Lines 510-521: the row enhance_audio adds; status and task_id are left to
\* the column defaults of AudioFile.
EnhancedAudioFile(fusion_data, gdrive_file_id) ==
    [filename |-> <<"enhanced", fusion_data.fusion_filename>>,
     gdrive_file_id |-> <<"drive", gdrive_file_id>>,
     status |-> "PENDING", is_fusion |-> TRUE,
     source_track1_id |-> fusion_data.track1_metadata.id,
     source_track2_id |-> fusion_data.track2_metadata.id,
     task_id |-> 0]

\* Lines 534-541.
EnhanceResult(fusion_data, file_id, gdrive_file_id) ==
    [file_id |-> file_id, gdrive_file_id |-> gdrive_file_id,
     filename |-> <<"enhanced", fusion_data.fusion_filename>>,
     project_id |-> fusion_data.project_id, user_id |-> fusion_data.user_id]

\* Lines 377-475: read the inputs, load the track, enhance it, save it.  The
\* handler of lines 547-553 removes the stem directory if stem_dir was bound.
EnhanceAudioStart(t) ==
    /\ Queued(t, "enhance_audio")
    /\ LET fusion_data == tasks[t].args
           i == Len(tasks[t].execs) + 1 IN
       IF ~HasKey(fusion_data, "stem_dir")
       THEN /\ tasks' = Raise(Deliver(tasks, t, "process", 0), t, i)
            /\ UNCHANGED dirs
       ELSE \E ok \in BOOLEAN :
              IF EnhanceInputKeys \subseteq DOMAIN fusion_data /\ ok
              THEN /\ tasks' = UpdateState(
                                  Deliver(tasks, t, "upload", fusion_data.stem_dir), t, 4)
                   /\ UNCHANGED dirs
              ELSE /\ tasks' = Raise(Deliver(tasks, t, "process", fusion_data.stem_dir), t, i)
                   /\ dirs' = dirs \ {fusion_data.stem_dir}
    /\ UNCHANGED <<gdriveImport, library, fusions, audioFiles, runs, store, handler,
                   redelivered, lastPoll, reaper>>

\* Lines 477-553: upload the enhanced track, add the AudioFile row, commit,
\* remove the stem directory, return; on an exception remove the stem
\* directory and raise.
EnhanceAudioFinish(t, i) ==
    /\ Running(t, i, "upload")
    /\ LET fusion_data == tasks[t].args
           gdrive_file_id == Len(store) + 1 IN
       \E uploaded \in BOOLEAN, committed \in BOOLEAN :
         /\ store' = IF UploadCallBinds(gdriveImport) /\ uploaded
                     THEN Append(store, [run |-> tasks[t].run, task |-> t, exec |-> i])
                     ELSE store
         /\ IF /\ UploadCallBinds(gdriveImport) /\ uploaded
               /\ {"track1_metadata", "track2_metadata"} \subseteq DOMAIN fusion_data
               /\ committed
            THEN /\ audioFiles' = Append(audioFiles,
                                         EnhancedAudioFile(fusion_data, gdrive_file_id))
                 /\ tasks' = ChainOnSuccess(
                                UpdateState(
                                   [SetPc(tasks, t, i, "returned")
                                      EXCEPT ![t].execs[i].art = gdrive_file_id], t, 5),
                                t, EnhanceResult(fusion_data, Len(audioFiles) + 1,
                                                 gdrive_file_id))
            ELSE /\ tasks' = Raise(tasks, t, i)
                 /\ UNCHANGED audioFiles
    /\ dirs' = dirs \ {tasks[t].execs[i].dir}
    /\ UNCHANGED <<gdriveImport, library, fusions, runs, handler, redelivered, lastPoll, reaper>>

\* ------------------------------------------------------------- the broker
\* task_acks_late: a message is acknowledged only after the task has run, so
\* a message whose acknowledgement does not reach the broker (worker or
\* connection lost once the task body has ended) is delivered again.
Ended(e) == e.pc \in {"returned", "raised"}

Redeliver(t) ==
    /\ t \in 1..Len(tasks)
    /\ tasks[t].execs # <<>>
    /\ \A i \in 1..Len(tasks[t].execs) : Ended(tasks[t].execs[i])
    /\ redelivered < MaxRedeliveries
    /\ redelivered' = redelivered + 1
    /\ tasks' = [tasks EXCEPT ![t].msgs = @ + 1]
    /\ UNCHANGED <<gdriveImport, library, fusions, audioFiles, runs, dirs, store,
                   handler, lastPoll, reaper>>

\* ------------------------------------------------- stages called directly
\* The values a stage can be given; guidance and volumes in tenths.
StageDurations == {4, 5, 30, 31}
StageGuidances == {9, 10, 70, 71}
Stems == {"vocals", "drums"}
Volumes == {-5, 0, 20, 25}
VolumeLevels == UNION {[S -> Volumes] : S \in SUBSET Stems}

DirectCalls == {t \in 1..Len(tasks) : tasks[t].run = 0}

\* generate_fusion.apply_async((feature_data,), kwargs): the task is sent
\* on its own, with any duration and prompt_guidance (tasks.py:256-258).
SendGenerateFusion(d, g) ==
    /\ Cardinality(DirectCalls) < MaxCalls
    /\ tasks' = Append(tasks,
                    NewTask("generate_fusion", 0, CraftedFeatureData(-1),
                            GenerationKwargs([DefaultRequest(d) EXCEPT
                                                 !.prompt_guidance = g]),
                            <<>>, TRUE))
    /\ UNCHANGED <<gdriveImport, library, fusions, audioFiles, runs, dirs, store,
                   handler, redelivered, lastPoll, reaper>>

\* services/audio_mixing.py:14-29; volume_factor in tenths.
AdjustVolume(volume_factor) == Max(0, Min(20, volume_factor))

\* services/audio_mixing.py:106-110: volume_levels.get(stem_type, 1.0) and
\* the factor adjust_volume applies, for every stem.
AppliedVolumes(volume_levels) ==
    [stem \in Stems |->
        AdjustVolume(IF stem \in DOMAIN volume_levels
                     THEN volume_levels[stem] ELSE 10)]

\* services/audio_mixing.py:55-148: a call of mix_audio_stems, kept as an
\* execution that has returned.
MixAudioStems(volume_levels) ==
    /\ Cardinality(DirectCalls) < MaxCalls
    /\ tasks' = Append(tasks,
                    [NewTask("mix_audio_stems", 0, EmptyDict,
                             [volume_levels |-> volume_levels], <<>>, FALSE)
                       EXCEPT !.execs = <<[pc |-> "returned", dir |-> 0, art |-> 0,
                                           call |-> AppliedVolumes(volume_levels)]>>])
    /\ UNCHANGED <<gdriveImport, library, fusions, audioFiles, runs, dirs, store,
                   handler, redelivered, lastPoll, reaper>>

\* What the file of a selected stem is: a sound file, no file, or a file
\* that sf.read cannot read.
FileStates == {"sound", "missing", "unreadable"}
StemFiles == UNION {[S -> FileStates] : S \in SUBSET Stems}

\* services/audio_mixing.py:89-136: the stems that are added to the mix; a
\* file that does not exist is skipped (91-93) and so is one whose
\* processing raises (135-136).
LoadedStems(stem_paths) ==
    {stem \in DOMAIN stem_paths : stem_paths[stem] = "sound"}

\* services/audio_mixing.py:85-148: a call of mix_audio_stems on the files
\* stem_paths names, with an output_path: it raises when nothing was added
\* to the mix (138-139) and writes the output otherwise (141-148).
MixAudioStemsOn(stem_paths) ==
    /\ Cardinality(DirectCalls) < MaxCalls
    /\ LET mixed == LoadedStems(stem_paths)
           e == IF mixed = {}
                THEN [pc |-> "raised", dir |-> 0, art |-> 0, mixed |-> mixed,
                      output |-> FALSE, error |-> "No valid stems to mix"]
                ELSE [pc |-> "returned", dir |-> 0, art |-> 0, mixed |-> mixed,
                      output |-> TRUE, error |-> "None"]
       IN  tasks' = Append(tasks,
                       [NewTask("services.mix_audio_stems", 0, EmptyDict,
                                [stem_paths |-> stem_paths], <<>>, FALSE)
                          EXCEPT !.execs = <<e>>])
    /\ UNCHANGED <<gdriveImport, library, fusions, audioFiles, runs, dirs, store,
                   handler, redelivered, lastPoll, reaper>>

\* --------------------- services/music_generation.py: generate_music_with_stems
\* The values of max_retries.
RetryLimits == {0, 1, 2}

\* What one attempt meets: replicate.run returns a list with a URL and the
\* download answers 200; the output is no such list; the download answers
\* another status; replicate.run raises.
AttemptOutcomes == {"ok", "bad_output", "bad_status", "raises"}

\* Lines 116-121: output_paths, one path per stem name.
OutputPaths == {"mix", "drums", "bass", "other"}

\* A loop that makes one attempt more than max_retries.
LoopGoesOnOnceMore(attempt, max_retries) == attempt <= max_retries

\* Line 168: for attempt in range(max_retries)
LoopGoesOn(attempt, max_retries) == attempt < max_retries

\* Line 200: if attempt < max_retries - 1
RetryAgain(attempt, max_retries) == attempt < max_retries - 1

\* Lines 107-163: the function is called; nothing is written yet.
GenerateMusicWithStems(max_retries) ==
    /\ Cardinality(DirectCalls) < MaxCalls
    /\ tasks' = Append(tasks,
                    [NewTask("services.generate_music_with_stems", 0, EmptyDict,
                             [max_retries |-> max_retries], <<>>, FALSE)
                       EXCEPT !.execs = <<[pc |-> "loop", dir |-> 0, art |-> 0,
                                           attempt |-> 0, outcomes |-> <<>>,
                                           written |-> {}, result |-> {}]>>])
    /\ UNCHANGED <<gdriveImport, library, fusions, audioFiles, runs, dirs, store,
                   handler, redelivered, lastPoll, reaper>>

\* Lines 168-206, one turn of the loop: replicate.run is called; on success
\* the mix file is written and output_paths is returned (185-193); on an
\* error the loop sleeps and goes on, or raises on the last attempt
\* (199-204).  After the loop the function raises (206, 208-211).
MusicAttempt(t, outcome) ==
    /\ Running(t, 1, "loop")
    /\ tasks[t].name = "services.generate_music_with_stems"
    /\ LET e == tasks[t].execs[1]
           max_retries == tasks[t].kwargs.max_retries
       IN  IF ~LoopGoesOn(e.attempt, max_retries)
           THEN /\ outcome = "ok"
                /\ tasks' = [tasks EXCEPT ![t].execs[1].pc = "raised"]
           ELSE IF outcome = "ok"
           THEN tasks' = [tasks EXCEPT
                            ![t].execs[1].pc = "returned",
                            ![t].execs[1].outcomes = Append(@, outcome),
                            ![t].execs[1].written = {"mix"},
                            ![t].execs[1].result = OutputPaths]
           ELSE IF RetryAgain(e.attempt, max_retries)
           THEN tasks' = [tasks EXCEPT
                            ![t].execs[1].attempt = @ + 1,
                            ![t].execs[1].outcomes = Append(@, outcome)]
           ELSE tasks' = [tasks EXCEPT
                            ![t].execs[1].pc = "raised",
                            ![t].execs[1].outcomes = Append(@, outcome)]
    /\ UNCHANGED <<gdriveImport, library, fusions, audioFiles, runs, dirs, store,
                   handler, redelivered, lastPoll, reaper>>

\* ------------------------------------------- task: cleanup_temp_files
\* 86400 seconds, in units of 12 hours.
Retention == 2

\* Line 569: current_time - dir_stat.st_mtime > 86400, inclusive instead.
ExpiredAtThreshold(current_time, st_mtime) == current_time - st_mtime >= Retention

\* Line 569: current_time - dir_stat.st_mtime > 86400
Expired(current_time, st_mtime) == current_time - st_mtime > Retention

\* Names of entries that something other than the pipeline creates under
\* TEMP_STEMS_DIR.
EntryNames == {-1, -2}

\* What the file system does to one item of the sweep.
Outcomes == {"ok", "stat_fails", "rmtree_fails"}

\* An entry is created under TEMP_STEMS_DIR.
PutEntry(name, isdir) ==
    /\ name \notin dirs \cup files
    /\ name \notin DOMAIN mtime
    /\ IF isdir THEN dirs' = dirs \cup {name} /\ UNCHANGED files
                ELSE files' = files \cup {name} /\ UNCHANGED dirs
    /\ mtime' = (name :> clock) @@ mtime
    /\ UNCHANGED <<gdriveImport, library, fusions, audioFiles, tasks, runs, store,
                   handler, redelivered, lastPoll, clock, sweep>>

\* Twelve hours pass.
Tick ==
    /\ clock < MaxClock
    /\ clock' = clock + 1
    /\ UNCHANGED <<gdriveImport, library, fusions, audioFiles, tasks, runs, dirs, store,
                   handler, redelivered, lastPoll, mtime, files, sweep>>

\* worker.py:54-59 and tasks.py:559-562: the beat schedule sends the task;
\* it reads the time and lists TEMP_STEMS_DIR.
CleanupStart ==
    /\ sweep.pc = "idle"
    /\ sweep.returned < MaxSweeps
    /\ sweep' = [sweep EXCEPT !.pc = "loop", !.current_time = clock,
                              !.listing = dirs \cup files,
                              !.todo = dirs \cup files, !.failed = {}]
    /\ UNCHANGED <<gdriveImport, library, fusions, audioFiles, tasks, runs, dirs, store,
                   handler, redelivered, lastPoll, clock, mtime, files>>

\* An except block that ends the sweep instead of going on.
OnDirectoryErrorAborts(sw, item) ==
    [sw EXCEPT !.pc = "raised", !.failed = @ \cup {item}]

\* Lines 572-573: except Exception: logger.error(...); the loop goes on.
OnDirectoryError(sw, item) ==
    [sw EXCEPT !.todo = @ \ {item}, !.failed = @ \cup {item}]

\* Lines 562-573, one item of the listing: nothing for what is no
\* directory; os.stat may raise; an expired directory is removed with
\* shutil.rmtree(ignore_errors=True), which leaves it when it fails.
CleanupItem(item, outcome) ==
    /\ sweep.pc = "loop"
    /\ item \in sweep.todo
    /\ IF item \notin dirs
       THEN /\ outcome = "ok"
            /\ sweep' = [sweep EXCEPT !.todo = @ \ {item}]
            /\ UNCHANGED dirs
       ELSE IF outcome = "stat_fails"
       THEN /\ sweep' = OnDirectoryError(sweep, item)
            /\ UNCHANGED dirs
       ELSE IF ~Expired(sweep.current_time, mtime[item])
       THEN /\ outcome = "ok"
            /\ sweep' = [sweep EXCEPT !.todo = @ \ {item}]
            /\ UNCHANGED dirs
       ELSE IF outcome = "rmtree_fails"
       THEN /\ sweep' = [sweep EXCEPT !.todo = @ \ {item}, !.failed = @ \cup {item}]
            /\ UNCHANGED dirs
       ELSE /\ sweep' = [sweep EXCEPT !.todo = @ \ {item}]
            /\ dirs' = dirs \ {item}
    /\ UNCHANGED <<gdriveImport, library, fusions, audioFiles, tasks, runs, store,
                   handler, redelivered, lastPoll, clock, mtime, files>>

\* Line 575: return {"status": "success", ...}
CleanupReturn ==
    /\ sweep.pc = "loop"
    /\ sweep.todo = {}
    /\ sweep' = [sweep EXCEPT !.pc = "idle", !.returned = @ + 1]
    /\ UNCHANGED <<gdriveImport, library, fusions, audioFiles, tasks, runs, dirs, store,
                   handler, redelivered, lastPoll, clock, mtime, files>>

\* ------------------------------------- api/generated_music.py, mixed_track.py
Users == {1, 2}

\* Project u is the project of user u; the client of /mix-stems is user 1.
ProjectIds == {1, 2}
ProjectOwned(proj_id, user) == proj_id = user

Range(seq) == {seq[k] : k \in 1..Len(seq)}

\* MixedTrackCreate.selected_stems: List[str]
SelectedStems ==
    {<<>>} \cup {<<a>> : a \in Stems} \cup {<<a, b>> : a \in Stems, b \in Stems}

\* api/generated_music.py:37-109: a user asks for music in a project of
\* theirs; the record is committed as pending and the task is sent.
CreateMusicGeneration(user) ==
    /\ handler = Idle
    /\ Len(generatedMusic) < MaxMusic
    /\ generatedMusic' = Append(generatedMusic,
                             [proj_id |-> user, user_id |-> user,
                              status |-> "pending", stems |-> {},
                              task_id |-> Len(tasks) + 1])
    /\ tasks' = Append(tasks,
                    NewTask("generate_music_with_stems", 0, EmptyDict,
                            [generated_music_id |-> Len(generatedMusic) + 1],
                            <<>>, TRUE))
    /\ handler' = [Idle EXCEPT !.op = "generate_music", !.code = 202,
                               !.rec = Len(generatedMusic) + 1]
    /\ UNCHANGED <<gdriveImport, fusions, audioFiles, runs, dirs, store,
                   redelivered, lastPoll, reaper, mixedTracks>>

\* The task generate_music_with_stems: it stores one stem per stem type it
\* produced and marks the record completed, or failed when it produced none.
GenerateMusicWithStemsTask(t, produced) ==
    /\ Queued(t, "generate_music_with_stems")
    /\ LET id == tasks[t].kwargs.generated_music_id IN
       /\ generatedMusic' =
            [generatedMusic EXCEPT
               ![id].stems = produced,
               ![id].status = IF produced = {} THEN "failed" ELSE "completed"]
       /\ tasks' = [tasks EXCEPT
                      ![t].msgs = @ - 1,
                      ![t].state = IF produced = {} THEN "FAILURE" ELSE "SUCCESS"]
    /\ UNCHANGED <<gdriveImport, fusions, audioFiles, runs, dirs, store,
                   handler, redelivered, lastPoll, reaper, mixedTracks>>

\* api/mixed_track.py:74-78: the Stem rows of the music whose stem_type is
\* one of the selected ones.
AvailableStems(generated_music_id, selected_stems) ==
    generatedMusic[generated_music_id].stems \cap Range(selected_stems)

\* A check that asks for one of the selected stems only.
AllStemsAvailableLax(available_stems, selected_stems) ==
    available_stems # {} \/ Len(selected_stems) = 0

\* api/mixed_track.py:80: len(available_stems) != len(mix_data.selected_stems)
AllStemsAvailable(available_stems, selected_stems) ==
    Cardinality(available_stems) = Len(selected_stems)

\* api/mixed_track.py:82-83: the selected stem types that are not available.
MissingStems(generated_music_id, selected_stems) ==
    SelectSeq(selected_stems,
              LAMBDA x : x \notin AvailableStems(generated_music_id, selected_stems))

\* api/mixed_track.py:38-88: the answer of a request that is refused.
MixRejection(proj_id, generated_music_id, selected_stems) ==
    CASE ~ProjectOwned(proj_id, 1) ->
            [code |-> 404, detail |-> "Project not found", missing |-> <<>>]
      [] generated_music_id \notin 1..Len(generatedMusic) ->
            [code |-> 404, detail |-> "Generated music not found", missing |-> <<>>]
      [] generatedMusic[generated_music_id].status # "completed" ->
            [code |-> 400, detail |-> "not ready for mixing", missing |-> <<>>]
      [] generatedMusic[generated_music_id].user_id # 1 ->
            [code |-> 403, detail |-> "no access", missing |-> <<>>]
      [] ~AllStemsAvailable(AvailableStems(generated_music_id, selected_stems),
                            selected_stems) ->
            [code |-> 400, detail |-> "Some requested stems are not available",
             missing |-> MissingStems(generated_music_id, selected_stems)]
      [] OTHER -> [code |-> 0, detail |-> "None", missing |-> <<>>]

\* api/mixed_track.py:22-129: create_mixed_track.
CreateMixedTrack(proj_id, generated_music_id, selected_stems) ==
    /\ handler = Idle
    /\ LET no == MixRejection(proj_id, generated_music_id, selected_stems)
           request == [proj_id |-> proj_id,
                       generated_music_id |-> generated_music_id,
                       selected_stems |-> selected_stems]
       IN  IF no.code # 0
           THEN /\ handler' = [Rejected("mix_rejected", no.code) EXCEPT
                                  !.request = request,
                                  !.result = [detail |-> no.detail,
                                              missing |-> no.missing]]
                /\ UNCHANGED <<tasks, mixedTracks>>
           ELSE /\ Len(mixedTracks) < MaxMixes
                /\ mixedTracks' = Append(mixedTracks,
                                      [generated_music_id |-> generated_music_id,
                                       proj_id |-> proj_id, user_id |-> 1,
                                       selected_stems |-> selected_stems,
                                       status |-> "pending",
                                       task_id |-> Len(tasks) + 1])
                /\ tasks' = Append(tasks,
                                NewTask("mix_stems", 0, EmptyDict,
                                        [mixed_track_id |-> Len(mixedTracks) + 1,
                                         selected_stems |-> selected_stems],
                                        <<>>, TRUE))
                /\ handler' = [Idle EXCEPT !.op = "mix", !.code = 202,
                                           !.rec = Len(mixedTracks) + 1,
                                           !.request = request]
    /\ UNCHANGED <<gdriveImport, fusions, audioFiles, runs, dirs, store,
                   redelivered, lastPoll, reaper, generatedMusic>>

\* ------------------------------------------------------------ cancellation
\* FusionStatus.CANCELLED is declared and no operation of the application
\* writes it: the status of a committed record is set to "cancelled" from
\* outside.
Cancel(r) ==
    /\ r \in 1..Len(runs)
    /\ handler = Idle
    /\ runs[r].rec # 0
    /\ IF runs[r].kind = "prefix"
       THEN /\ fusions[runs[r].rec].status # "cancelled"
            /\ fusions' = [fusions EXCEPT ![runs[r].rec].status = "cancelled"]
            /\ UNCHANGED audioFiles
       ELSE /\ audioFiles[runs[r].rec].status # "cancelled"
            /\ audioFiles' = [audioFiles EXCEPT ![runs[r].rec].status = "cancelled"]
            /\ UNCHANGED fusions
    /\ UNCHANGED <<gdriveImport, library, tasks, runs, dirs, store, handler,
                   redelivered, lastPoll, reaper>>

\* ----------------------------------------------------------- specification
Execs == 1..(1 + MaxRedeliveries)

\* The workers: every step of every task.
Work ==
    \/ \E t \in 1..Len(tasks) : StemSeparationStart(t)
    \/ \E t \in 1..Len(tasks), i \in Execs : StemSeparationFinish(t, i)
    \/ \E t \in 1..Len(tasks) : FeatureExtractionStart(t)
    \/ \E t \in 1..Len(tasks), i \in Execs : FeatureExtractionFinish(t, i)
    \/ \E t \in 1..Len(tasks) : GenerateFusionStart(t)
    \/ \E t \in 1..Len(tasks), i \in Execs : GenerateFusionFinish(t, i)
    \/ \E t \in 1..Len(tasks) : EnhanceAudioStart(t)
    \/ \E t \in 1..Len(tasks), i \in Execs : EnhanceAudioFinish(t, i)

Next ==
    \/ \E p \in SourcePairs : PrepareSubmit(p[1], p[2])
    \/ PrepareCommit
    \/ \E p \in SourcePairs, d \in Durations, tok \in ResumeTokens :
         GenerateSubmit(p[1], p[2], DefaultRequest(d), tok)
    \/ GenerateCommit
    \/ Work

\* The pipeline with clients whose requests are well formed, on a broker
\* that delivers every message once.
Spec == Init /\ [][Next]_vars

\* The pipeline on a broker that may deliver a message more than once.
NextRedelivery == Next \/ \E t \in 1..Len(tasks) : Redeliver(t)

SpecRedelivery == Init /\ [][NextRedelivery]_vars

\* Two requests to /prepare-prompt/ on tracks of the user, and the stages
\* they start.
NextSources ==
    \/ \E p \in OwnedPairs : PrepareSubmitWithin(p[1], p[2], MaxJobs)
    \/ PrepareCommit
    \/ \E t \in 1..Len(tasks) : StemSeparationStart(t)
    \/ \E t \in 1..Len(tasks), i \in Execs : StemSeparationFinish(t, i)
    \/ \E t \in 1..Len(tasks) : FeatureExtractionStart(t)
    \/ \E t \in 1..Len(tasks), i \in Execs : FeatureExtractionFinish(t, i)

SpecSources == Init /\ [][NextSources]_vars

\* Requests to /prepare-prompt/ on any two tracks, validated first, and the
\* stages they start.
NextValidation ==
    \/ \E t1 \in TrackIds, t2 \in TrackIds : PrepareRequest(t1, t2)
    \/ PrepareCommit
    \/ Respond
    \/ \E t \in 1..Len(tasks) : StemSeparationStart(t)
    \/ \E t \in 1..Len(tasks), i \in Execs : StemSeparationFinish(t, i)
    \/ \E t \in 1..Len(tasks) : FeatureExtractionStart(t)
    \/ \E t \in 1..Len(tasks), i \in Execs : FeatureExtractionFinish(t, i)

SpecValidation == Init /\ [][NextValidation]_vars

\* Calls of mix_audio_stems on stem files of any kind.
NextMixing == \E stem_paths \in StemFiles : MixAudioStemsOn(stem_paths)

SpecMixing == Init /\ [][NextMixing]_vars

\* The application with clients that write the feature data themselves.
NextContext ==
    \/ Next
    \/ \E p \in SourcePairs, d \in AnyDurations, tok \in ContextTokens :
         GenerateSubmit(p[1], p[2], DefaultRequest(d), tok)

SpecContext == Init /\ [][NextContext]_vars

\* Calls of generate_music_with_stems.
NextMusic ==
    \/ \E m \in RetryLimits : GenerateMusicWithStems(m)
    \/ \E t \in 1..Len(tasks), o \in AttemptOutcomes : MusicAttempt(t, o)

SpecMusic == Init /\ [][NextMusic]_vars

\* The thread that runs the function goes on running.
SpecMusicFair ==
    SpecMusic /\ WF_vars(\E t \in 1..Len(tasks), o \in AttemptOutcomes : MusicAttempt(t, o))

\* The pipeline with a client that polls the status endpoint.
NextPolling == Next \/ \E id \in 1..(Len(audioFiles) + 1) : GetFusionStatus(id)

SpecPolling == Init /\ [][NextPolling]_vars

\* The pipeline with clients that send any request.
NextRequests ==
    \/ \E p \in AnyPairs : PrepareSubmit(p[1], p[2])
    \/ PrepareCommit
    \/ \E p \in AnyPairs, d \in AnyDurations, tok \in TokenInputs :
         GenerateSubmit(p[1], p[2], DefaultRequest(d), tok)
    \/ GenerateCommit
    \/ Respond
    \/ Work

SpecRequests == Init /\ [][NextRequests]_vars

\* The pipeline with clients that resume a token with either pair of the
\* tracks they own.
NextPairs ==
    \/ \E p \in SourcePairs : PrepareSubmit(p[1], p[2])
    \/ PrepareCommit
    \/ \E p \in OwnedPairs, d \in AnyDurations, tok \in ResumeTokens :
         GenerateSubmit(p[1], p[2], DefaultRequest(d), tok)
    \/ GenerateCommit
    \/ Work

SpecPairs == Init /\ [][NextPairs]_vars

\* The pipeline with requests whose temperature is anything; 10.0 is 100.
Temperatures == {0, 1, 10, 15, 16, 100}

NextParams ==
    \/ \E p \in SourcePairs : PrepareSubmit(p[1], p[2])
    \/ PrepareCommit
    \/ \E p \in SourcePairs, x \in Temperatures, tok \in ResumeTokens :
         GenerateSubmit(p[1], p[2],
                        [DefaultRequest(15) EXCEPT !.temperature = x], tok)
    \/ GenerateCommit
    \/ Respond
    \/ Work

SpecParams == Init /\ [][NextParams]_vars

\* The generate and mix stages with any parameter values.
NextStages ==
    \/ \E d \in StageDurations, g \in StageGuidances : SendGenerateFusion(d, g)
    \/ \E t \in 1..Len(tasks) : GenerateFusionStart(t)
    \/ \E t \in 1..Len(tasks), i \in Execs : GenerateFusionFinish(t, i)
    \/ \E v \in VolumeLevels : MixAudioStems(v)

SpecStages == Init /\ [][NextStages]_vars

\* The first two stages, entries that appear under TEMP_STEMS_DIR, and the
\* periodic cleanup on a file system that does what it is asked.
Reaper(outcomes) ==
    \/ \E p \in SourcePairs : PrepareSubmit(p[1], p[2])
    \/ PrepareCommit
    \/ \E t \in 1..Len(tasks) : StemSeparationStart(t)
    \/ \E t \in 1..Len(tasks), i \in Execs : StemSeparationFinish(t, i)
    \/ \E t \in 1..Len(tasks) : FeatureExtractionStart(t)
    \/ \E t \in 1..Len(tasks), i \in Execs : FeatureExtractionFinish(t, i)
    \/ \E name \in EntryNames, isdir \in BOOLEAN : PutEntry(name, isdir)
    \/ Tick
    \/ CleanupStart
    \/ \E item \in sweep.todo, outcome \in outcomes : CleanupItem(item, outcome)
    \/ CleanupReturn

NextReaper == Reaper({"ok"})

SpecReaper == Init /\ [][NextReaper]_vars

\* The same on a file system where os.stat and the removal can fail.
NextReaperFaults == Reaper(Outcomes)

SpecReaperFaults == Init /\ [][NextReaperFaults]_vars

\* Music generation followed by requests to mix any selection of stems.
NextMix ==
    \/ \E user \in Users : CreateMusicGeneration(user)
    \/ \E t \in 1..Len(tasks), produced \in SUBSET Stems :
         GenerateMusicWithStemsTask(t, produced)
    \/ \E proj_id \in ProjectIds, id \in 1..(Len(generatedMusic) + 1),
          selected_stems \in SelectedStems :
         CreateMixedTrack(proj_id, id, selected_stems)
    \/ Respond

SpecMix == Init /\ [][NextMix]_vars

\* The pipeline with a client that downloads outputs.
NextDownload ==
    \/ Next
    \/ \E id \in 1..(Len(audioFiles) + 1), ok \in BOOLEAN : DownloadFusion(id, ok)

SpecDownload == Init /\ [][NextDownload]_vars

\* The pipeline with jobs that are cancelled.
NextCancel == Next \/ \E r \in 1..Len(runs) : Cancel(r)

SpecCancel == Init /\ [][NextCancel]_vars

\* ------------------------------------------------------------------ claims
Started(t) == tasks[t].msgs > 0 \/ tasks[t].execs # <<>>

JobRecord(r) ==
    IF runs[r].kind = "prefix" THEN fusions[runs[r].rec] ELSE audioFiles[runs[r].rec]

Column(row, c) == IF c \in DOMAIN row THEN row[c] ELSE "None"

\* The handler that submitted run r has committed the run's record.
Submitted(r) ==
    /\ runs[r].rec # 0
    /\ ~(runs[r].kind = "prefix" /\ handler.op = "prepare" /\ handler.rec = runs[r].rec)

FailedStages(r) == {t \in {runs[r].first, runs[r].last} : tasks[t].state = "FAILURE"}

\* C2: whenever a stage of a run has failed, the record the run was given at
\* submission has status FAILED and an error_message that names the failing
\* stage.
C2_FailureRecorded ==
    \A r \in 1..Len(runs) :
        Submitted(r) =>
            \A t \in FailedStages(r) :
                /\ JobRecord(r).status \in {"FAILED", "failed"}
                /\ Column(JobRecord(r), "error_message") = tasks[t].name

\* Every kind of stage has failed in some run and no record says so.
C2_Witness ==
    /\ handler = Idle
    /\ \E r \in 1..Len(runs) :
          /\ Submitted(r) /\ tasks[runs[r].last].state = "FAILURE"
          /\ tasks[runs[r].last].name = "enhance_audio"
          /\ JobRecord(r).status = "pending"
    /\ \E r \in 1..Len(runs) :
          /\ Submitted(r) /\ tasks[runs[r].first].state = "FAILURE"
          /\ tasks[runs[r].first].name = "stem_separation"
          /\ JobRecord(r).status = "processing"

\* The directories the executions of a run's stages have worked in.
WorkDirs(r) ==
    UNION {{tasks[t].execs[i].dir : i \in 1..Len(tasks[t].execs)} :
             t \in {runs[r].first, runs[r].last}}

\* The artifacts uploaded by the stages of run r.
Uploads(r) == {k \in 1..Len(store) : store[k].run = r}

\* C3: once a stage of a run has failed, no working directory of that run
\* exists under the scratch root and no artifact has been uploaded for it.
C3_FailureCleansUp ==
    \A r \in 1..Len(runs) :
        FailedStages(r) # {} => WorkDirs(r) \cap dirs = {} /\ Uploads(r) = {}

\* feature_extraction has failed and the stem directory of its run exists.
C3_Witness ==
    \E r \in 1..Len(runs) :
        /\ tasks[runs[r].last].name = "feature_extraction"
        /\ tasks[runs[r].last].state = "FAILURE"
        /\ WorkDirs(r) \cap dirs # {}

EnhanceReturned(r) ==
    /\ tasks[runs[r].last].name = "enhance_audio"
    /\ tasks[runs[r].last].state = "SUCCESS"

\* C4: when enhance_audio has returned, the record the run was given at
\* submission (the one the status endpoint reads) has status COMPLETED, the
\* id of the uploaded artifact, completed_at set and progress 100, and the
\* working directory of the run has been deleted.
C4_CompletionRecorded ==
    \A r \in 1..Len(runs) :
        Submitted(r) /\ EnhanceReturned(r) =>
            /\ JobRecord(r).status \in {"COMPLETED", "completed"}
            /\ JobRecord(r).gdrive_file_id =
                  <<"drive", tasks[runs[r].last].result.gdrive_file_id>>
            /\ Column(JobRecord(r), "completed_at") # "None"
            /\ Column(JobRecord(r), "progress") = 100
            /\ WorkDirs(r) \cap dirs = {}

\* enhance_audio has returned: the record of the submission is still
\* pending and the artifact id is held by another row.
C4_Witness ==
    \E r \in 1..Len(runs) :
        /\ Submitted(r) /\ EnhanceReturned(r)
        /\ JobRecord(r).status = "pending"
        /\ JobRecord(r).gdrive_file_id = <<"pending", runs[r].last>>
        /\ \E a \in 1..Len(audioFiles) :
              /\ a # runs[r].rec
              /\ audioFiles[a].gdrive_file_id =
                    <<"drive", tasks[runs[r].last].result.gdrive_file_id>>

\* A run is over: its last stage has returned or one of its stages raised.
RunOver(r) ==
    \/ \E i \in 1..Len(tasks[runs[r].last].execs) :
          tasks[runs[r].last].execs[i].pc = "returned"
    \/ \E t \in {runs[r].first, runs[r].last} :
          \E i \in 1..Len(tasks[t].execs) : tasks[t].execs[i].pc = "raised"

\* A stage of run r is executed in this step.
Invoked(r) ==
    \E t \in {runs[r].first, runs[r].last} : tasks'[t].execs # tasks[t].execs

\* C5: executing a stage of a run that is already over (a duplicate or
\* redelivered message, that of enhance_audio included) creates no record,
\* modifies no record and uploads no artifact.
C5_RerunIsNoOp ==
    [][\A r \in 1..Len(runs) :
          RunOver(r) /\ Invoked(r) =>
              /\ audioFiles' = audioFiles
              /\ fusions' = fusions
              /\ store' = store]_vars

\* The message of an enhance_audio that had returned was delivered again:
\* the run has two uploads and two rows beside the one of its submission.
C5_Witness ==
    \E r \in 1..Len(runs) :
        /\ Cardinality(Uploads(r)) = 2
        /\ Len(tasks[runs[r].last].execs) = 2
        /\ Len(audioFiles) >= 3

\* C6: every poll of the status endpoint for a submitted job is answered
\* with a progress value, and that value is not below the one the previous
\* poll of the same job was answered with.
C6_ProgressNonDecreasing ==
    [][\A id \in 1..Len(audioFiles) :
          lastPoll' # lastPoll /\ lastPoll'.id = id =>
              /\ lastPoll'.code = 200
              /\ lastPoll.id = id /\ lastPoll.code = 200 =>
                    lastPoll'.progress >= lastPoll.progress]_vars

\* The job of a resumed run is polled while its first stage is reporting
\* progress, and the poll is answered with a server error.
C6_Witness ==
    \E r \in 1..Len(runs) :
        /\ Submitted(r) /\ runs[r].kind = "resumed"
        /\ tasks[runs[r].first].state = "PROGRESS"
        /\ lastPoll.id = runs[r].rec
        /\ lastPoll.code = 500

\* What a record holds.  A Fusion row holds an artifact id when its
\* gdrive_file_id is not NULL, an AudioFile row when its gdrive_file_id is
\* the id of an upload and not the "pending_<task id>" placeholder.
HoldsOutput(row) ==
    IF "progress" \in DOMAIN row THEN row.gdrive_file_id # 0
    ELSE row.gdrive_file_id[1] = "drive"

HoldsError(row) == Column(row, "error_message") # "None"

RecordOk(row) ==
    /\ ~(HoldsOutput(row) /\ HoldsError(row))
    /\ row.status \in {"COMPLETED", "completed"} => HoldsOutput(row)
    /\ row.status \in {"FAILED", "failed"} => HoldsError(row)
    /\ row.status \notin {"COMPLETED", "completed", "FAILED", "failed"}
          => ~HoldsOutput(row)

\* C7: no record holds both an artifact id and an error_message, a
\* COMPLETED record holds the artifact id, a FAILED record the
\* error_message, and a record that is not terminal holds no artifact id.
C7_OutputXorError ==
    /\ \A f \in 1..Len(fusions) : RecordOk(fusions[f])
    /\ \A a \in 1..Len(audioFiles) : RecordOk(audioFiles[a])

\* The row enhance_audio has added: not terminal, with the id of an upload.
C7_Witness ==
    \E a \in 1..Len(audioFiles) :
        /\ audioFiles[a].status = "PENDING"
        /\ HoldsOutput(audioFiles[a])
        /\ ~HoldsError(audioFiles[a])

Resumes == {r \in 1..Len(runs) : runs[r].kind = "resumed" /\ Submitted(r)}

PrefixStages == {"stem_separation", "feature_extraction"}

\* C8: there is exactly one record per resume, no stage of a resumed run is
\* stem_separation or feature_extraction (every execution of those belongs
\* to a prefix run), and no step of a resume modifies a record that exists:
\* rows of audio_files never change and rows of fusions change only in the
\* prepare-prompt handler.
C8_ResumeCreatesOneRecord ==
    /\ [](/\ Len(audioFiles) = Cardinality(Resumes)
          /\ \A t \in 1..Len(tasks) :
                tasks[t].name \in PrefixStages => runs[tasks[t].run].kind = "prefix")
    /\ [][/\ \A a \in 1..Len(audioFiles) : audioFiles'[a] = audioFiles[a]
          /\ \A f \in 1..Len(fusions) :
                fusions'[f] # fusions[f] => handler.op = "prepare"]_vars

\* One token resumed twice with different durations; one of the two runs
\* has returned from enhance_audio and audio_files has three rows.
C8_Witness ==
    \E r1 \in Resumes, r2 \in Resumes :
        /\ r1 # r2
        /\ tasks[runs[r1].first].args = tasks[runs[r2].first].args
        /\ tasks[runs[r1].first].kwargs.duration # tasks[runs[r2].first].kwargs.duration
        /\ EnhanceReturned(r1)
        /\ Len(audioFiles) = 3

\* C9: when a run is resumed from the token of a prefix run that has
\* returned, generate_fusion is sent with everything that prefix run
\* returned (stem paths, source metadata, features) in its feature_data.
C9_ResumeReceivesPrefixOutput ==
    [][Len(runs') > Len(runs) /\ runs'[Len(runs')].kind = "resumed" =>
          LET feature_data == tasks'[runs'[Len(runs')].first].args
              token == feature_data.task_id
          IN  token \in 1..Len(tasks) /\ tasks[token].state = "SUCCESS" =>
                \A k \in DOMAIN tasks[token].result :
                    HasKey(feature_data, k) /\ feature_data[k] = tasks[token].result[k]
      ]_vars

\* A run resumed from the token of a returned prefix run: generate_fusion
\* got the token alone and has raised.
C9_Witness ==
    \E r \in Resumes :
        LET feature_data == tasks[runs[r].first].args
            token == feature_data.task_id
        IN  /\ token \in 1..Len(tasks)
            /\ tasks[token].name = "feature_extraction"
            /\ tasks[token].state = "SUCCESS"
            /\ DOMAIN feature_data = {"task_id"}
            /\ tasks[runs[r].first].state = "FAILURE"
            /\ ~Started(runs[r].last)

\* The token is an identifier string (bare or as a JSON string) or an
\* object that embeds one.
EmbedsIdentifier(tok) ==
    \/ tok.kind \in {"uuid", "digits", "quoted"}
    \/ tok.kind \in {"object", "dict"} /\ Truthy(tok.fields, "task_id")

\* C10: a resume request (for tracks that exist) whose token embeds an
\* identifier is dispatched with that identifier; one whose token embeds
\* none is answered with HTTP 400, and sends no task and creates no record;
\* no token is answered with any other error.
C10_TokenOutcome ==
    /\ [](/\ handler.op = "generate" =>
                /\ EmbedsIdentifier(handler.token)
                /\ tasks[runs[handler.rec].first].args.task_id = handler.token.id
          /\ handler.op = "generate_rejected" /\ handler.code # 404 =>
                ~EmbedsIdentifier(handler.token) /\ handler.code = 400)
    /\ [][handler.op = "generate_rejected" \/ handler'.op = "generate_rejected" =>
            UNCHANGED <<tasks, runs, audioFiles, fusions>>]_vars

\* A token that is a string of digits has been answered with HTTP 500.
C10_Witness ==
    /\ handler.op = "generate_rejected"
    /\ handler.token.kind = "digits"
    /\ handler.code = 500

\* The source pair of the prefix run that issued token id.
TokenPair(id) ==
    LET p == CHOOSE r \in RunsOf("prefix") : runs[r].last = id
    IN  <<fusions[runs[p].rec].track1_id, fusions[runs[p].rec].track2_id>>

\* C11: a resume that is dispatched with the token of a prefix run names
\* the source pair of that prefix run; a token submitted with a differing
\* pair dispatches nothing.
C11_TokenPairMatches ==
    handler.op = "generate" /\ handler.token.id \in IssuedIds =>
        TokenPair(handler.token.id) = <<handler.track1_id, handler.track2_id>>

\* The token of the prefix run for tracks (1, 2) was resumed with tracks
\* (2, 1): the chain has been sent and its record committed.
C11_Witness ==
    \E r \in Resumes :
        LET token == tasks[runs[r].first].args.task_id
        IN  /\ token \in IssuedIds
            /\ TokenPair(token) = <<1, 2>>
            /\ audioFiles[runs[r].rec].source_track1_id = 2
            /\ audioFiles[runs[r].rec].source_track2_id = 1
            /\ tasks[runs[r].first].msgs + Len(tasks[runs[r].first].execs) > 0

\* The prefix run that issued token id.
TokenRun(id) == CHOOSE r \in RunsOf("prefix") : runs[r].last = id

\* C12: a resume is dispatched with the token of a prefix run only when
\* that prefix run has returned; for a prefix run that has failed or is in
\* flight nothing is dispatched.
C12_ResumeNeedsFinishedPrefix ==
    [][handler.op = "idle" /\ handler'.op = "generate"
         /\ handler'.token.id \in IssuedIds =>
            tasks[handler'.token.id].state = "SUCCESS"]_vars

\* A resume has just been dispatched with the token of a prefix run whose
\* first stage is still separating.
C12_Witness ==
    /\ handler.op = "generate"
    /\ handler.token.id \in IssuedIds
    /\ tasks[runs[TokenRun(handler.token.id)].first].state = "PROGRESS"
    /\ tasks[handler.token.id].state = "PENDING"
    /\ tasks[runs[handler.rec].first].msgs = 1

\* C13: a stage of a run is sent to the broker, and so starts, fails or
\* returns, only when the record of the run has been committed.
C13_RecordBeforeDispatch ==
    \A r \in 1..Len(runs) :
        Started(runs[r].first) \/ Started(runs[r].last) => runs[r].rec # 0

\* generate_fusion has run and raised while the handler that sent it has
\* not yet added the record of the run.
C13_Witness ==
    \E r \in 1..Len(runs) :
        /\ runs[r].kind = "resumed"
        /\ runs[r].rec = 0
        /\ handler.op = "generate" /\ handler.rec = r
        /\ tasks[runs[r].first].state = "FAILURE"
        /\ Len(audioFiles) = 0

\* The status that names a stage: FusionStatus.PROCESSING for the first
\* stage, then FEATURE_EXTRACTION, GENERATING, ENHANCING.
StageStatus(name) ==
    CASE name = "stem_separation" -> "processing"
      [] name = "feature_extraction" -> "feature_extraction"
      [] name = "generate_fusion" -> "generating"
      [] name = "enhance_audio" -> "enhancing"

Executing(t) == \E i \in 1..Len(tasks[t].execs) : ~Ended(tasks[t].execs[i])

\* C14: while a stage of a run executes, the status of the run's record
\* names that stage.
C14_StatusNamesStage ==
    \A r \in 1..Len(runs) :
        \A t \in {runs[r].first, runs[r].last} :
            runs[r].rec # 0 /\ Executing(t) =>
                JobRecord(r).status = StageStatus(tasks[t].name)

\* feature_extraction executes, the prepare-prompt handler has answered,
\* and the Fusion row of the run still says "processing".
C14_Witness ==
    \E r \in 1..Len(runs) :
        /\ Submitted(r) /\ handler = Idle
        /\ tasks[runs[r].last].name = "feature_extraction"
        /\ Executing(runs[r].last)
        /\ JobRecord(r).status = "processing"

Cancelled(r) == runs[r].rec # 0 /\ JobRecord(r).status = "cancelled"

EndedExecs(r) ==
    {<<t, i>> \in {runs[r].first, runs[r].last} \X Execs :
        i <= Len(tasks[t].execs) /\ Ended(tasks[t].execs[i])}

\* C15: once the record of a run says CANCELLED, no message of a stage of
\* the run is sent, no artifact is uploaded and no row is added for the
\* run, and when a stage of the run ends the working directory of the run
\* is gone.
C15_CancelStopsRun ==
    [][\A r \in 1..Len(runs) :
          Cancelled(r) =>
            /\ \A t \in {runs[r].first, runs[r].last} : tasks'[t].msgs <= tasks[t].msgs
            /\ Uploads(r)' = Uploads(r)
            /\ Invoked(r) => Len(audioFiles') = Len(audioFiles)
            /\ EndedExecs(r)' # EndedExecs(r) => WorkDirs(r)' \cap dirs' = {}]_vars

\* A record is CANCELLED while a stage of its run is in flight.
C15_Witness ==
    \E r \in 1..Len(runs) :
        /\ Cancelled(r)
        /\ Executing(runs[r].first)
        /\ ~Started(runs[r].last)

\* The rows of a run whose last stage, enhance_audio, has returned: the
\* record of the submission and the row enhance_audio added.
CompletedRows ==
    {id \in 1..Len(audioFiles) :
        \/ audioFiles[id].status \in {"COMPLETED", "completed"}
        \/ \E r \in 1..Len(runs) :
              /\ Submitted(r) /\ EnhanceReturned(r)
              /\ id \in {runs[r].rec, tasks[runs[r].last].result.file_id}}

\* C16: a download of a job's row answers the artifact (200) exactly when
\* the job is completed, and a client error (4xx) for every other job.
C16_DownloadWhenCompleted ==
    [][lastPoll' # lastPoll /\ lastPoll'.endpoint = "download"
         /\ lastPoll'.id \in 1..Len(audioFiles) =>
          /\ lastPoll'.code = 200 <=> lastPoll'.id \in CompletedRows
          /\ lastPoll'.id \notin CompletedRows => lastPoll'.code \in 400..499]_vars

\* The output of a job whose last stage has returned was asked for.
C16_Witness ==
    /\ lastPoll.endpoint = "download"
    /\ lastPoll.id \in CompletedRows
    /\ lastPoll.code = 400

\* The value of lo..hi nearest to v.
Nearest(lo, hi, v) == IF v < lo THEN lo ELSE IF v > hi THEN hi ELSE v

\* C17: a generate request is not rejected for its temperature, whatever
\* it is, and the engine call of its generate stage receives the
\* temperature clamped to [0.1, 1.5].
C17_TemperatureClamped ==
    /\ handler.op = "generate_rejected" =>
          GenerateRejection(handler.track1_id, handler.track2_id,
                            [handler.request EXCEPT !.temperature = 10],
                            handler.token) # 0
    /\ \A t \in 1..Len(tasks) : \A i \in 1..Len(tasks[t].execs) :
          "call" \in DOMAIN tasks[t].execs[i] =>
             /\ "temperature" \in DOMAIN tasks[t].execs[i].call
             /\ tasks[t].execs[i].call.temperature =
                   Nearest(1, 15, tasks[t].kwargs.temperature)

\* A request with temperature 10.0 and nothing else wrong was answered.
C17_Witness ==
    /\ handler.op = "generate_rejected"
    /\ handler.request.temperature = 100
    /\ handler.code = 422
    /\ GenerateRejection(handler.track1_id, handler.track2_id,
                         [handler.request EXCEPT !.temperature = 10],
                         handler.token) = 0

EngineCalls ==
    {c \in (1..Len(tasks)) \X Execs :
        /\ c[2] <= Len(tasks[c[1]].execs)
        /\ "call" \in DOMAIN tasks[c[1]].execs[c[2]]}

Old(d) == sweep.current_time - mtime[d] > Retention

SweepReturns == sweep.pc = "loop" /\ sweep'.pc = "idle"

C20_SweepSurvivesFailures ==
    /\ [](sweep.pc # "raised")
    /\ [][SweepReturns =>
            \A d \in sweep.listing \ (files \cup sweep.failed) :
                Old(d) => d \notin dirs']_vars

\* A sweep has returned after os.stat failed on one directory and the
\* removal of another failed, and a third, expired directory is gone.
C20_Witness ==
    /\ sweep.pc = "idle" /\ sweep.returned = 1
    /\ \E d \in sweep.failed \cap dirs : ~Old(d)
    /\ \E d \in sweep.failed \cap dirs : Old(d)
    /\ \E d \in sweep.listing \ sweep.failed : Old(d) /\ d \notin dirs

\* The request the handler has answered is for an existing music and
\* selects a stem type that is not among the stems of that music.
SelectsMissingStem ==
    /\ handler.op \in {"mix", "mix_rejected"}
    /\ handler.request.generated_music_id \in 1..Len(generatedMusic)
    /\ Range(handler.request.selected_stems)
          \ generatedMusic[handler.request.generated_music_id].stems # {}

NamesMissingStems ==
    /\ handler.op = "mix_rejected"
    /\ handler.code \in 400..499
    /\ Range(handler.result.missing) =
          Range(handler.request.selected_stems)
             \ generatedMusic[handler.request.generated_music_id].stems

\* create_mixed_track answers a request.
AnswersMix == handler.op = "idle" /\ handler'.op \in {"mix", "mix_rejected"}

\* C21 as stated: every mix request that selects a missing stem type is
\* answered with a client error that names the missing stem types.
C21_MissingStemsNamed ==
    [][AnswersMix /\ SelectsMissingStem' => NamesMissingStems']_vars

\* The request passes the checks that come before the stems are looked at.
ReachesStemCheck ==
    /\ ProjectOwned(handler.request.proj_id, 1)
    /\ generatedMusic[handler.request.generated_music_id].status = "completed"
    /\ generatedMusic[handler.request.generated_music_id].user_id = 1

\* C21, amended: a mix request that selects a missing stem type is refused
\* with a client error, and no MixedTrack record is created and no mix task
\* is sent; when the request is for a completed music of the caller in a
\* project of the caller, the answer names the missing stem types.
C21_MissingStemsRefused ==
    [][AnswersMix /\ SelectsMissingStem' =>
         /\ handler'.op = "mix_rejected" /\ handler'.code \in 400..499
         /\ mixedTracks' = mixedTracks /\ tasks' = tasks
         /\ ReachesStemCheck' => NamesMissingStems']_vars

\* vocals and drums were selected from a completed music of the caller
\* that has only vocals, and the answer names drums.
C21_Witness ==
    /\ SelectsMissingStem /\ ReachesStemCheck
    /\ handler.request.selected_stems = <<"vocals", "drums">>
    /\ generatedMusic[handler.request.generated_music_id].stems = {"vocals"}
    /\ handler.code = 400
    /\ handler.result.missing = <<"drums">>
    /\ mixedTracks = <<>>

ExecutionsUnderWay(r) ==
    {<<t, i>> \in (1..Len(tasks)) \X Execs :
        /\ tasks[t].run = r
        /\ i <= Len(tasks[t].execs)
        /\ ~Ended(tasks[t].execs[i])}

\* C22: at any time at most one worker is executing a stage of a given
\* job, also when the broker redelivers a task: no two executions of stages
\* of one run are under way together.
C22_OneWorkerPerJob ==
    \A r \in 1..Len(runs) : Cardinality(ExecutionsUnderWay(r)) <= 1

\* A redelivered message of a stage is taken up by a worker while the next
\* stage of the job is running.
C22_Witness ==
    \E t \in 1..Len(tasks), u \in 1..Len(tasks) :
        /\ tasks[t].run # 0 /\ tasks[u].run = tasks[t].run /\ u # t
        /\ Len(tasks[t].execs) = 2
        /\ ~Ended(tasks[t].execs[2])
        /\ Executing(u)

JobPaths(r) ==
    UNION {SeparationPaths(t, i) : <<t, i>> \in
              {x \in (1..Len(tasks)) \X Execs :
                  /\ tasks[x[1]].run = r
                  /\ tasks[x[1]].name = "stem_separation"
                  /\ x[2] <= Len(tasks[x[1]].execs)}}

\* C23: no local file or directory is shared between jobs: the paths the
\* stem separation of one job writes and reads are used by no other job,
\* also when two jobs use the same source track.
C23_NoSharedLocalPath ==
    \A r1 \in 1..Len(runs), r2 \in 1..Len(runs) :
        r1 # r2 => JobPaths(r1) \cap JobPaths(r2) = {}

\* Two jobs on the same track 1 are separating stems at the same time.
C23_Witness ==
    \E t \in 1..Len(tasks), u \in 1..Len(tasks) :
        /\ t # u
        /\ tasks[t].name = "stem_separation" /\ tasks[u].name = "stem_separation"
        /\ tasks[t].args.track1_id = tasks[u].args.track1_id
        /\ Running(t, 1, "separate") /\ Running(u, 1, "separate")

MusicCalls ==
    {t \in 1..Len(tasks) : tasks[t].name = "services.generate_music_with_stems"}

\* C24: generate_music_with_stems reports as produced exactly the stems it
\* produced: every entry it returns is a file that was written.
C24_ReportsProducedStems ==
    \A t \in MusicCalls :
        tasks[t].execs[1].pc = "returned" =>
            tasks[t].execs[1].result = tasks[t].execs[1].written

\* A call has returned after a successful attempt.
C24_Witness ==
    \E t \in MusicCalls :
        /\ tasks[t].execs[1].pc = "returned"
        /\ tasks[t].execs[1].written = {"mix"}

Succeeded(outcomes) == {k \in 1..Len(outcomes) : outcomes[k] = "ok"}

RetriesBounded(t) ==
    LET e == tasks[t].execs[1]
        max_retries == tasks[t].kwargs.max_retries
    IN  /\ Len(e.outcomes) <= max_retries
        /\ Succeeded(e.outcomes) \subseteq {Len(e.outcomes)}
        /\ e.pc = "returned" <=> Succeeded(e.outcomes) # {}
        /\ e.pc = "raised" => Len(e.outcomes) = max_retries

\* C30: for any max_retries >= 0, generate_music_with_stems calls the API
\* at most max_retries times, makes no call after the first successful
\* attempt and returns then, raises when every attempt has failed, never
\* returns after failed attempts only, and every call of it ends.
C30_RetriesTerminate ==
    /\ [](\A t \in MusicCalls : RetriesBounded(t))
    /\ \A t \in 1..MaxCalls :
          (t \in MusicCalls) ~> (t \in MusicCalls /\ Ended(tasks[t].execs[1]))

\* A call has returned after a failed attempt and a successful one, and
\* another has raised after two failed attempts.
C30_Witness ==
    \E t \in MusicCalls, u \in MusicCalls :
        /\ tasks[t].execs[1].pc = "returned"
        /\ Len(tasks[t].execs[1].outcomes) = 2
        /\ tasks[u].execs[1].pc = "raised"
        /\ Len(tasks[u].execs[1].outcomes) = 2

AddingStages == {"feature_extraction", "generate_fusion"}

StageKeys(name) ==
    IF name = "feature_extraction" THEN {"features"}
    ELSE {"fusion_track_path", "fusion_filename", "prompt",
          "generation_params", "start_time"}

MixCalls ==
    {t \in 1..Len(tasks) : tasks[t].name = "services.mix_audio_stems"}

\* C26: mix_audio_stems writes an output only when every selected stem was
\* loaded and added to the mix; when a selected stem is missing or
\* unreadable it fails and writes nothing, with the error 'No valid stems to
\* mix' when no stem is valid.
C26_MixNeedsEveryStem ==
    \A t \in MixCalls :
        LET e == tasks[t].execs[1]
            selected == DOMAIN tasks[t].kwargs.stem_paths
        IN  /\ e.output => e.mixed = selected
            /\ e.mixed # selected => e.pc = "raised" /\ ~e.output
            /\ e.mixed = {} => e.error = "No valid stems to mix"

\* A call with a stem that was loaded and one that is missing or unreadable
\* has ended.
C26_Witness ==
    \E t \in MixCalls :
        /\ Ended(tasks[t].execs[1])
        /\ tasks[t].execs[1].mixed # {}
        /\ tasks[t].execs[1].mixed # DOMAIN tasks[t].kwargs.stem_paths

\* C27: a fusion request whose track1_id equals its track2_id is rejected
\* by request validation, and one with two different ids passes it.
C27_SameTrackRejected ==
    handler.op \in {"prepare", "prepare_rejected"} /\ handler.track1_id # 0 =>
        (handler.track1_id = handler.track2_id <=> handler.code = 422)

\* A request with the same track twice has been handled.
C27_Witness ==
    /\ handler.op \in {"prepare", "prepare_rejected"}
    /\ handler.track1_id # 0
    /\ handler.track1_id = handler.track2_id

\* The AudioFile records that reference artifact g of the store.
Referencing(g) ==
    {a \in 1..Len(audioFiles) : audioFiles[a].gdrive_file_id = <<"drive", g>>}

\* C28: once an invocation of enhance_audio has returned or raised, every
\* artifact it uploaded is referenced by exactly one AudioFile record.
C28_UploadsReferenced ==
    \A g \in 1..Len(store) :
        Ended(tasks[store[g].task].execs[store[g].exec]) =>
            Cardinality(Referencing(g)) = 1

\* An invocation has uploaded its artifact and has ended by an error.
C28_Witness ==
    \E g \in 1..Len(store) :
        tasks[store[g].task].execs[store[g].exec].pc = "raised"

\* Stage t of a run has been sent and has not ended.
PendingOrRunning(t) == tasks[t].msgs > 0 \/ Executing(t)

\* C29: the sweep never deletes the working directory of a job that still
\* has a pending or running stage: the stem directory that stem_separation
\* handed to feature_extraction is there as long as that stage is pending
\* or running.
C29_SweepSparesLiveJobs ==
    \A t \in 1..Len(tasks) :
        tasks[t].name = "feature_extraction" /\ tasks[t].run # 0
          /\ PendingOrRunning(t) =>
            tasks[t].args.stem_dir \in dirs

\* A sweep has removed the stem directory of a run whose feature_extraction
\* was waiting, and the stage has failed.
C29_Witness ==
    \E t \in 1..Len(tasks) :
        /\ tasks[t].name = "feature_extraction" /\ tasks[t].run # 0
        /\ tasks[t].state = "FAILURE"
        /\ tasks[t].args.stem_dir \in sweep.listing \ dirs

====
